---------------------------- MODULE Spec2Model ----------------------------
(***************************************************************************)
(* Model of src/cmd/extrinsics/transcode/env_types.rs: the transcoder of   *)
(* environment types (AccountId, Balance) of cargo-contract.               *)
(*                                                                         *)
(* EnvTypesTranscoder::new scans the scale-info registry from id 1 to      *)
(* build types_by_path, registers one encoder per environment type found   *)
(* there, and try_encode then dispatches on {type id, display name}.       *)
(*                                                                         *)
(* Option<T> is modelled as a set with at most one element: None is {},    *)
(* Some(x) is {x}.  A HashMap is a function whose DOMAIN is its key set.   *)
(***************************************************************************)
EXTENDS Naturals, Sequences, FiniteSets

\* ------------------------------------------------------------------ bounds

\* Largest number of types a registry holds.
MaxTypes == 2

\* Largest number of register_transcoder calls construction makes.
MaxCatalog == 2

\* Largest number of try_encode calls on one transcoder.
MaxCalls == 2

\* ---------------------------------------------------------------- constants

\* Length in bytes of sp_core::crypto::AccountId32.
AccountLen == 32

\* ------------------------------------------------------------------ inputs

\* Path segments of the types a registry may hold.  Primitive types such as
\* u128 have the empty path.
AccountIdPath == <<"ink_env", "types", "AccountId">>

PrimitivePath == <<>>

OtherPath == <<"erc20", "Erc20">>

PathPool == {AccountIdPath, PrimitivePath, OtherPath}

\* The types implementing EnvType + EnvTypeEncoder.
EnvTypes == {"AccountId", "Balance"}

\* EnvType::ALIAS
ALIAS(T) == T

\* A registry is the Vec of types behind RegistryReadOnly; only the Path of a
\* type matters here.
RECURSIVE SeqsUpTo(_, _)
SeqsUpTo(S, n) ==
    IF n = 0 THEN {<<>>}
    ELSE LET shorter == SeqsUpTo(S, n - 1)
         IN  shorter \cup {Append(s, x) : s \in {t \in shorter : Len(t) = n - 1}, x \in S}

Registries == SeqsUpTo(PathPool, MaxTypes)

\* T::Type::type_info().path() for each environment type.  The type behind
\* Balance is chosen by the environment: a primitive (the default u128) or a
\* named type, which may be the one behind AccountId.
TypePaths ==
    {f \in [EnvTypes -> PathPool] :
        /\ f["AccountId"] = AccountIdPath
        /\ f["Balance"] \in {PrimitivePath, AccountIdPath}}

\* The register_transcoder calls of a construction, in order.  The shipped
\* one is <<"AccountId", "Balance">>.
Catalogs == SeqsUpTo(EnvTypes, MaxCatalog)

\* Display-name paths of a TypeSpec.
DisplayNames ==
    {<<>>, <<"AccountId">>, <<"Balance">>, <<"AccountId", "u32">>,
     <<"ink_env", "AccountId">>}

\* TypeSpec<CompactForm>: the type id and the display name of an argument.
TypeSpecs == [ty : 1 .. MaxTypes + 1, display_name : DisplayNames]

\* Texts a Literal or a String may hold, described by what
\* AccountId32::from_str looks at: the length once a leading "0x" is
\* trimmed, whether it is all hex digits, whether it is a valid SS58
\* address, and the public key it stands for.
AliceText == [len |-> 48, hex |-> FALSE, ss58 |-> TRUE, key |-> 1]

HexText == [len |-> 2 * AccountLen, hex |-> TRUE, ss58 |-> FALSE, key |-> 2]

NotAnAddress == [len |-> 14, hex |-> FALSE, ss58 |-> FALSE, key |-> 0]

NoText == [len |-> 0, hex |-> FALSE, ss58 |-> FALSE, key |-> 0]

KeyBytes(k) == [j \in 1 .. AccountLen |-> k]

ByteSeqs == {[j \in 1 .. n |-> 1] : n \in {AccountLen, AccountLen + 1}}

\* scon::Value
Values ==
    [tag : {"Literal"}, text : {AliceText, NotAnAddress}, bytes : {<<>>}]
    \cup [tag : {"String"}, text : {HexText, NotAnAddress}, bytes : {<<>>}]
    \cup [tag : {"Bytes"}, text : {NoText}, bytes : ByteSeqs]
    \cup [tag : {"Tuple"}, text : {NoText}, bytes : {<<>>}]

\* Content of the caller's output before the first call.
InitialOutputs == {<<>>, <<255>>}

\* ------------------------------------------------------------------- state

VARIABLES
    pc,              \* "start", "scan", "register", "ready" or "panicked"
    registry,        \* new: the &RegistryReadOnly argument
    type_path,       \* new: T::Type::type_info().path() of each EnvType
    catalog,         \* new: the register_transcoder calls it makes
    i,               \* new: the scan counter
    types_by_path,   \* new: HashMap<PathKey, NonZeroU32>
    transcoders,     \* new: HashMap<EnvTypeId, Box<dyn EnvTypeEncoder>>
    next,            \* new: index in catalog of the next registration
    encoders,        \* EnvTypesTranscoder.encoders
    output,          \* the caller's Output
    output0,         \* the content of output before the first call
    handled,         \* the encoder outputs of the calls that returned Ok(true)
    calls,           \* number of try_encode calls made
    last             \* the latest try_encode call: arguments and result

\* The frame of new: its arguments and locals.
frame == <<registry, type_path, catalog, i, types_by_path, transcoders, next>>

\* What try_encode reads and writes besides self.
caller == <<output, output0, handled, calls, last>>

vars == <<pc, frame, encoders, caller>>

\* ----------------------------------------------------------------- results

Ok(b) == [kind |-> "Ok", handled |-> b, bytes |-> <<>>, error |-> ""]

OkBytes(bs) == [kind |-> "Ok", handled |-> FALSE, bytes |-> bs, error |-> ""]

Err(e) == [kind |-> "Err", handled |-> FALSE, bytes |-> <<>>, error |-> e]

Panic == [kind |-> "Panic", handled |-> FALSE, bytes |-> <<>>, error |-> "not implemented"]

NoCall ==
    [type_spec |-> [ty |-> 1, display_name |-> <<>>],
     value |-> [tag |-> "none", text |-> NoText, bytes |-> <<>>],
     invoked |-> {}, encoded |-> Err(""), result |-> Err(""), before |-> <<>>]

\* ------------------------------------------------------------ construction

\* RegistryReadOnly::resolve
RegistryResolve(reg, id) == IF id \in 1 .. Len(reg) THEN {reg[id]} ELSE {}

\* HashMap::insert
MapInsert(m, k, v) == [x \in DOMAIN m \cup {k} |-> IF x = k THEN v ELSE m[x]]

\* HashMap::get
MapGet(m, k) == IF k \in DOMAIN m THEN {m[k]} ELSE {}

\* EnvTypeId::new that forgets the alias (display_name: None).
EnvTypeIdNewNoAlias(T, type_lookup) ==
    {[type_id |-> type_id, display_name |-> {}] :
        type_id \in MapGet(type_lookup, type_path[T])}

\* EnvTypeId::new::<T>
EnvTypeIdNew(T, type_lookup) ==
    {[type_id |-> type_id, display_name |-> {ALIAS(T)}] :
        type_id \in MapGet(type_lookup, type_path[T])}

\* The conversion taking the first segment of the display name (.next()
\* for .last()).
EnvTypeIdFromFirst(type_spec) ==
    [type_id |-> type_spec.ty,
     display_name |->
        IF type_spec.display_name = <<>> THEN {}
        ELSE {type_spec.display_name[1]}]

\* impl From<&TypeSpec<CompactForm>> for EnvTypeId
EnvTypeIdFrom(type_spec) ==
    [type_id |-> type_spec.ty,
     display_name |->
        IF type_spec.display_name = <<>> THEN {}
        ELSE {type_spec.display_name[Len(type_spec.display_name)]}]

\* No frame: before new is called and after it has returned.
EmptyMap == [x \in {} |-> 0]

NoTypePath == [T \in EnvTypes |-> <<>>]

NoFrame ==
    /\ registry = <<>>
    /\ type_path = NoTypePath
    /\ catalog = <<>>
    /\ i = 0
    /\ types_by_path = EmptyMap
    /\ transcoders = EmptyMap
    /\ next = 0

Init ==
    /\ pc = "start"
    /\ NoFrame
    /\ encoders = EmptyMap
    /\ output0 \in InitialOutputs
    /\ output = output0
    /\ handled = <<>>
    /\ calls = 0
    /\ last = NoCall

\* new is called on a registry: transcoders and types_by_path are empty, i is 1.
NewCall ==
    /\ pc = "start"
    /\ registry' \in Registries
    /\ type_path' \in TypePaths
    /\ catalog' \in Catalogs
    /\ pc' = "scan"
    /\ i' = 1
    /\ types_by_path' = EmptyMap
    /\ transcoders' = EmptyMap
    /\ next' = 1
    /\ UNCHANGED <<encoders, caller>>

\* The scan keeping the first id of a path (entry().or_insert for insert).
ScanStepKeepFirst ==
    /\ pc = "scan"
    /\ RegistryResolve(registry, i) # {}
    /\ \E path \in RegistryResolve(registry, i) :
          types_by_path' = IF path \in DOMAIN types_by_path THEN types_by_path
                           ELSE MapInsert(types_by_path, path, i)
    /\ i' = i + 1
    /\ UNCHANGED <<pc, registry, type_path, catalog, transcoders, next,
                   encoders, caller>>

\* new, one iteration of the while let: the type with id i is there.
ScanStep ==
    /\ pc = "scan"
    /\ RegistryResolve(registry, i) # {}
    /\ \E path \in RegistryResolve(registry, i) :
          types_by_path' = MapInsert(types_by_path, path, i)
    /\ i' = i + 1
    /\ UNCHANGED <<pc, registry, type_path, catalog, transcoders, next,
                   encoders, caller>>

\* new, the end of the while let: no type with id i.
ScanEnd ==
    /\ pc = "scan"
    /\ RegistryResolve(registry, i) = {}
    /\ pc' = "register"
    /\ UNCHANGED <<frame, encoders, caller>>

\* register_transcoder without the check of `existing`: the later entry
\* silently replaces the earlier one.
RegisterTranscoderLazy ==
    /\ pc = "register"
    /\ next <= Len(catalog)
    /\ LET T == catalog[next]
           type_id == EnvTypeIdNew(T, types_by_path)
       IN  IF type_id = {}
           THEN UNCHANGED <<transcoders, pc>>
           ELSE \E key \in type_id :
                   /\ transcoders' = MapInsert(transcoders, key, T)
                   /\ UNCHANGED pc
    /\ next' = next + 1
    /\ UNCHANGED <<registry, type_path, catalog, i, types_by_path,
                   encoders, caller>>

\* register_transcoder::<T> for T = catalog[next]: the type is inserted under
\* its EnvTypeId when it has one, and a key that was there already panics.
RegisterTranscoder ==
    /\ pc = "register"
    /\ next <= Len(catalog)
    /\ LET T == catalog[next]
           type_id == EnvTypeIdNew(T, types_by_path)
       IN  IF type_id = {}
           THEN UNCHANGED <<transcoders, pc>>
           ELSE \E key \in type_id :
                   LET existing == MapGet(transcoders, key)
                   IN  /\ transcoders' = MapInsert(transcoders, key, T)
                       /\ pc' = IF existing # {} THEN "panicked" ELSE pc
    /\ next' = next + 1
    /\ UNCHANGED <<registry, type_path, catalog, i, types_by_path,
                   encoders, caller>>

\* new returns Self { encoders: transcoders }; its frame is gone.
NewReturn ==
    /\ pc = "register"
    /\ next > Len(catalog)
    /\ pc' = "ready"
    /\ encoders' = transcoders
    /\ registry' = <<>>
    /\ type_path' = NoTypePath
    /\ catalog' = <<>>
    /\ i' = 0
    /\ types_by_path' = EmptyMap
    /\ transcoders' = EmptyMap
    /\ next' = 0
    /\ UNCHANGED caller

\* ---------------------------------------------------------------- encoders

\* AccountId32::from_str: 64 characters after a leading "0x" are decoded as
\* hex, anything else as an SS58 address.
AccountId32FromStr(s) ==
    IF s.len = 2 * AccountLen
    THEN IF s.hex THEN OkBytes(KeyBytes(s.key)) ELSE Err("invalid hex address.")
    ELSE IF s.ss58 THEN OkBytes(KeyBytes(s.key)) ELSE Err("invalid ss58 address.")

\* AccountId32::try_from(&[u8])
AccountId32TryFrom(bytes) ==
    IF Len(bytes) = AccountLen THEN OkBytes(bytes) ELSE Err("()")

\* An AccountId encoder that zero-fills what it cannot convert.
AccountIdEncodeLenient(value) ==
    CASE value.tag \in {"Literal", "String"} ->
            IF AccountId32FromStr(value.text).kind = "Ok"
            THEN AccountId32FromStr(value.text)
            ELSE Err("Error parsing AccountId")
      [] value.tag = "Bytes" ->
            OkBytes([j \in 1 .. AccountLen |->
                        IF j <= Len(value.bytes) THEN value.bytes[j] ELSE 0])
      [] OTHER -> OkBytes(KeyBytes(0))

\* impl EnvTypeEncoder for AccountId
AccountIdEncode(value) ==
    LET account_id ==
            CASE value.tag = "Literal" ->
                    IF AccountId32FromStr(value.text).kind = "Ok"
                    THEN AccountId32FromStr(value.text)
                    ELSE Err("Error parsing AccountId from literal")
              [] value.tag = "String" ->
                    IF AccountId32FromStr(value.text).kind = "Ok"
                    THEN AccountId32FromStr(value.text)
                    ELSE Err("Error parsing AccountId from string")
              [] value.tag = "Bytes" ->
                    IF AccountId32TryFrom(value.bytes).kind = "Ok"
                    THEN AccountId32TryFrom(value.bytes)
                    ELSE Err("Error converting bytes to AccountId")
              [] OTHER -> Err("Expected a string or a literal for an AccountId")
    IN  account_id

\* impl EnvTypeEncoder for Balance: unimplemented!()
BalanceEncode(value) == Panic

\* EnvTypeEncoder::encode through the Box<dyn EnvTypeEncoder>
Encode(T, value) ==
    IF T = "AccountId" THEN AccountIdEncode(value) ELSE BalanceEncode(value)

\* A write that puts the bytes in front.
OutputWritePrepend(out, bytes) == bytes \o out

\* scale::Output::write
OutputWrite(out, bytes) == out \o bytes

\* ---------------------------------------------------------------- dispatch

\* A try_encode for which a miss is an error.
TryEncodeResultMissFails(found, encoded) ==
    IF found = {} THEN Err("no encoder for the type")
    ELSE IF encoded.kind = "Ok" THEN Ok(TRUE)
    ELSE encoded

\* try_encode, what it returns: Ok(false) on None, Ok(true) once the
\* encoder's bytes are written, and the encoder's error through `?`.
TryEncodeResult(found, encoded) ==
    IF found = {} THEN Ok(FALSE)
    ELSE IF encoded.kind = "Ok" THEN Ok(TRUE)
    ELSE encoded

\* A try_encode that writes a zeroed account when the encoder fails.
TryEncodeOutputZeroFill(out, found, encoded) ==
    IF found = {} THEN out
    ELSE IF encoded.kind = "Ok" THEN OutputWrite(out, encoded.bytes)
    ELSE OutputWrite(out, KeyBytes(0))

\* try_encode, what it leaves in output: the write comes after the `?`.
TryEncodeOutput(out, found, encoded) ==
    IF found # {} /\ encoded.kind = "Ok"
    THEN OutputWrite(out, encoded.bytes)
    ELSE out

\* A try_encode that takes the encoder out of the map (remove for get).
SelfTaken(type_spec) ==
    encoders' = [key \in DOMAIN encoders \ {EnvTypeIdFrom(type_spec)} |-> encoders[key]]

\* try_encode takes &self: the encoders are only read.
SelfShared(type_spec) == UNCHANGED encoders

\* try_encode
TryEncode(type_spec, value) ==
    /\ pc = "ready"
    /\ calls < MaxCalls
    /\ LET type_id == EnvTypeIdFrom(type_spec)
           found == MapGet(encoders, type_id)
           encoded == IF found = {} THEN NoCall.encoded
                      ELSE Encode(CHOOSE T \in found : TRUE, value)
           result == TryEncodeResult(found, encoded)
       IN  /\ output' = TryEncodeOutput(output, found, encoded)
           /\ handled' = IF result = Ok(TRUE)
                         THEN Append(handled, encoded.bytes)
                         ELSE handled
           /\ pc' = IF result.kind = "Panic" THEN "panicked" ELSE pc
           /\ last' = [type_spec |-> type_spec, value |-> value,
                       invoked |-> found, encoded |-> encoded,
                       result |-> result, before |-> output]
    /\ calls' = calls + 1
    /\ SelfShared(type_spec)
    /\ UNCHANGED <<frame, output0>>

Next ==
    \/ NewCall
    \/ ScanStep
    \/ ScanEnd
    \/ RegisterTranscoder
    \/ NewReturn
    \/ \E type_spec \in TypeSpecs, value \in Values : TryEncode(type_spec, value)

Spec == Init /\ [][Next]_vars

\* ------------------------------------------------------------------ claims

\* The frame of new is alive: new was called and has not returned.
InNew == pc \in {"scan", "register"} \/ (pc = "panicked" /\ last = NoCall)

\* The scan of the registry is over.
Scanned == InNew /\ pc # "scan"

\* The first id the registry does not resolve.
FirstAbsent(reg) ==
    CHOOSE n \in 1 .. Len(reg) + 1 :
        /\ RegistryResolve(reg, n) = {}
        /\ \A m \in 1 .. n - 1 : RegistryResolve(reg, m) # {}

\* The ids below n whose type has the path.
IdsOf(reg, path, n) == {id \in 1 .. n - 1 : RegistryResolve(reg, id) = {path}}

\* What entry j of the catalog resolves to, once the scan is over.
Resolved(j) == EnvTypeIdNew(catalog[j], types_by_path)

\* Entry k of the catalog resolves to the key of an earlier entry.
Collides(k) ==
    /\ Scanned
    /\ k \in 1 .. Len(catalog)
    /\ Resolved(k) # {}
    /\ \E j \in 1 .. k - 1 : Resolved(j) = Resolved(k)

\* The key try_encode looks up for the latest call: the type id and the last
\* segment of the display name.
LastKeys ==
    {key \in DOMAIN encoders :
        /\ key.type_id = last.type_spec.ty
        /\ last.type_spec.display_name # <<>>
        /\ key.display_name =
              {last.type_spec.display_name[Len(last.type_spec.display_name)]}}

RECURSIVE Flatten(_)
Flatten(ss) == IF ss = <<>> THEN <<>> ELSE Head(ss) \o Flatten(Tail(ss))

\* C1: construction fails eagerly on a key collision.  When entry k of the
\* catalog resolves to the EnvTypeId of an earlier entry, new panics in the
\* registration of k (the first such k), no transcoder is produced and no
\* try_encode call is made; new panics in no other case, and nothing happens
\* after a panic.
C1_EagerCollision ==
    /\ [](\A k \in 1 .. Len(catalog) :
             Collides(k) /\ next > k =>
                /\ pc = "panicked"
                /\ next = k + 1
                /\ encoders = EmptyMap
                /\ calls = 0)
    /\ [](pc = "panicked" /\ last = NoCall => Collides(next - 1))
    /\ [][/\ pc # "panicked"
          /\ (\E k \in 1 .. Len(catalog) : Collides(k)) => pc' # "ready"]_vars

C1_Witness ==
    /\ pc = "panicked"
    /\ last = NoCall
    /\ catalog = <<"AccountId", "AccountId">>
    /\ next = 3

\* C2: EnvTypeId::new over the index built from the registry returns a value
\* iff the canonical path of the type is the path of some type of the
\* registry; the value is {an id of the registry with that path, Some(alias)};
\* on absence nothing is registered for the type and new does not panic.
C2_ResolveIffPresent ==
    Scanned =>
        /\ \A T \in EnvTypes :
              LET present == \E id \in 1 .. Len(registry) : registry[id] = type_path[T]
                  resolved == EnvTypeIdNew(T, types_by_path)
              IN  /\ resolved # {} <=> present
                  /\ \A r \in resolved :
                        /\ r.type_id \in 1 .. Len(registry)
                        /\ registry[r.type_id] = type_path[T]
                        /\ r.display_name = {ALIAS(T)}
                  /\ ~present => \A key \in DOMAIN transcoders : transcoders[key] # T
        /\ pc = "panicked" => Resolved(next - 1) # {}

C2_Witness ==
    /\ pc = "register"
    /\ catalog = <<"AccountId", "Balance">>
    /\ next > Len(catalog)
    /\ Resolved(1) # {}
    /\ Resolved(2) = {}
    /\ DOMAIN transcoders = Resolved(1)
    /\ Len(registry) = 2

\* C10: the scan visits ids 1, 2, 3, ... and ends at the first id the registry
\* does not resolve; the index holds exactly the paths of the ids visited,
\* each mapped to the largest id visited with that path; the scan does not
\* panic.
C10_ScanIndex ==
    InNew =>
        /\ i \in 1 .. FirstAbsent(registry)
        /\ pc # "scan" => i = FirstAbsent(registry)
        /\ pc = "scan" => next = 1 /\ transcoders = EmptyMap
        /\ DOMAIN types_by_path = {registry[id] : id \in 1 .. i - 1}
        /\ \A path \in DOMAIN types_by_path :
              /\ types_by_path[path] \in IdsOf(registry, path, i)
              /\ \A id \in IdsOf(registry, path, i) : id <= types_by_path[path]

C10_Witness ==
    /\ pc = "register"
    /\ Len(registry) = 2
    /\ registry[1] = registry[2]
    /\ types_by_path[registry[1]] = 2
    /\ i = 3

\* C3: when the encoders hold an encoder for the EnvTypeId of the argument
\* and it succeeds, try_encode returns Ok(true) and output is what it was
\* before the call followed by the encoder's bytes (32 for AccountId); output
\* is always its initial content followed by the encoder outputs of the calls
\* that returned Ok(true), in call order.
C3_AppendsEncoded ==
    /\ output = output0 \o Flatten(handled)
    /\ \A key \in LastKeys :
          Encode(encoders[key], last.value).kind = "Ok" =>
             /\ last.result = Ok(TRUE)
             /\ output = last.before \o Encode(encoders[key], last.value).bytes
             /\ handled # <<>>
             /\ handled[Len(handled)] = Encode(encoders[key], last.value).bytes
             /\ encoders[key] = "AccountId" => Len(output) = Len(last.before) + 32
    /\ last.result = Ok(TRUE) => LastKeys # {}

C3_Witness ==
    /\ Len(handled) = 2
    /\ handled[1] # handled[2]
    /\ output0 # <<>>
    /\ last.result = Ok(TRUE)
    /\ last.value.tag = "Literal"

\* C4: when the matched encoder fails on the value, try_encode returns that
\* error, output is as it was before the call, and Ok(true) is not returned.
C4_ErrorLeavesOutput ==
    \A key \in LastKeys :
        Encode(encoders[key], last.value).kind = "Err" =>
           /\ last.result = Encode(encoders[key], last.value)
           /\ last.result.kind = "Err"
           /\ last.result # Ok(TRUE)
           /\ output = last.before
           /\ output = output0 \o Flatten(handled)

C4_Witness ==
    /\ LastKeys # {}
    /\ last.value = [tag |-> "Literal", text |-> NotAnAddress, bytes |-> <<>>]
    /\ last.result.kind = "Err"
    /\ handled # <<>>
    /\ output = last.before

\* C5: when the encoders hold no encoder for the EnvTypeId of the argument,
\* try_encode returns Ok(false), invokes no encoder and leaves output as it
\* was, whatever the value.
C5_MissIsTerminal ==
    last # NoCall /\ LastKeys = {} =>
        /\ last.result = Ok(FALSE)
        /\ last.invoked = {}
        /\ last.encoded = NoCall.encoded
        /\ output = last.before
        /\ pc = "ready"

C5_Witness ==
    /\ last # NoCall
    /\ encoders # EmptyMap
    /\ last.type_spec.ty \notin {key.type_id : key \in DOMAIN encoders}
    /\ last.type_spec.display_name = <<"AccountId", "u32">>
    /\ last.value.tag = "Tuple"
    /\ last.result = Ok(FALSE)

\* C6: dispatch is keyed on {type id, alias}, the alias of an argument being
\* the last segment of its display name: try_encode invokes an encoder iff a
\* registered key has the type id and the alias of the argument, and then the
\* encoder of that key; registrations that share a type id under different
\* aliases are both kept, each with its own encoder, and do not panic.
C6_CompoundKey ==
    /\ last # NoCall =>
          /\ last.invoked # {} <=> LastKeys # {}
          /\ \A key \in LastKeys : last.invoked = {encoders[key]}
          /\ LastKeys = {} => last.result = Ok(FALSE)
    /\ Scanned =>
          /\ \A j \in 1 .. next - 1 :
                \A key \in Resolved(j) :
                   /\ key \in DOMAIN transcoders
                   /\ transcoders[key] = catalog[j]
          /\ pc = "panicked" =>
                \E j \in 1 .. next - 2 : catalog[j] = catalog[next - 1]

C6_Witness ==
    /\ last # NoCall
    /\ \E k1 \in DOMAIN encoders, k2 \in DOMAIN encoders :
          /\ k1.type_id = k2.type_id
          /\ encoders[k1] # encoders[k2]
          /\ last.type_spec.ty = k1.type_id
    /\ last.type_spec.display_name = <<"AccountId", "u32">>
    /\ last.result = Ok(FALSE)

\* C7: the encoders are not changed after construction: every step taken
\* once new has returned leaves them as they are, and a call with the
\* arguments of the call before it gives the same result.
C7_EncodersImmutable ==
    [][pc = "ready" =>
          /\ encoders' = encoders
          /\ pc' \in {"ready", "panicked"}
          /\ (last # NoCall /\ last'.type_spec = last.type_spec
                /\ last'.value = last.value) =>
                 /\ last'.result = last.result
                 /\ last'.invoked = last.invoked]_vars

C7_Witness ==
    /\ pc = "ready"
    /\ calls = 2
    /\ encoders # EmptyMap
    /\ Len(handled) = 1
    /\ last.result.kind = "Err"

\* C8: a value dispatched to the Balance encoder always gives a result, Ok or
\* Err, and the process does not abort.
C8_BalanceReturns ==
    last.invoked = {"Balance"} =>
        /\ last.result.kind \in {"Ok", "Err"}
        /\ pc # "panicked"

\* C9: the AccountId encoder succeeds on exactly a Literal or a String that
\* parses as an address and a Bytes of 32 bytes; it returns an error and no
\* bytes for everything else, and what it returns on success is 32 bytes.
C9_AccountIdShapes ==
    last.invoked = {"AccountId"} =>
        LET value == last.value
            accepted ==
                \/ /\ value.tag \in {"Literal", "String"}
                   /\ AccountId32FromStr(value.text).kind = "Ok"
                \/ /\ value.tag = "Bytes"
                   /\ Len(value.bytes) = 32
        IN  /\ last.encoded.kind = "Ok" <=> accepted
            /\ ~accepted => last.encoded.kind = "Err" /\ last.encoded.bytes = <<>>
            /\ accepted => Len(last.encoded.bytes) = 32
            /\ value.tag = "Bytes" /\ accepted => last.encoded.bytes = value.bytes

C9_Witness ==
    /\ last.invoked = {"AccountId"}
    /\ last.value.tag = "Bytes"
    /\ Len(last.value.bytes) = 33
    /\ last.encoded.kind = "Err"

=============================================================================
